---- MODULE Spec2Model ----
(***************************************************************************)
(* Vote accounting of the consensus engine: VoteSet (one per height,       *)
(* round and vote type) and HeightVoteSet (all VoteSets of one height).    *)
(*                                                                         *)
(* Two specifications share the module:                                    *)
(*   VoteSetSpec  threads calling AddByIndex / AddByAddress on one VoteSet *)
(*                through its mutex;                                       *)
(*   Spec         calls of SetRound / AddByAddress on one HeightVoteSet,   *)
(*                each of them atomic because it holds hvs.mtx throughout; *)
(*   ValidationSpec  calls of AddByAddress and then MakeValidation on one  *)
(*                VoteSet, and the Validation's votes fed to a fresh one;  *)
(*   LockSpec     threads calling into one HeightVoteSet and into the      *)
(*                VoteSets it hands out, one mutex operation at a time     *)
(*                (LockFairSpec: under fair scheduling).                   *)
(***************************************************************************)
EXTENDS Integers, Sequences, FiniteSets, TLC

(***************************************************************************)
(* Bounds of the model.                                                    *)
(***************************************************************************)
\* validators of the VoteSet under VoteSetSpec
NumVals == 3
\* threads calling into the VoteSet under VoteSetSpec
NumThreads == 2
\* the rounds SetRound is called with and votes are cast for under Spec
MaxRound == 2
\* calls made on the HeightVoteSet under Spec
MaxCalls == 3

(***************************************************************************)
(* Values of the program.                                                  *)
(***************************************************************************)
\* height of the VoteSet / HeightVoteSet (NewVoteSet panics on height 0)
Height == 1
VoteTypePrevote == 1
VoteTypePrecommit == 2

\* a nil *types.Vote
NilVote == [nil |-> TRUE]
\* a nil *sm.Validator
NilValidator == [nil |-> TRUE]
\* no thread holds the mutex
NoThread == 0

Threads == 1..NumThreads

\* the voting powers the first validator may have
PowerChoices == {1, 2}

Addr(i) == 100 + i
UnknownAddress == 99

\* A validator set: index -> validator.
MakeValSet(powers) == [i \in DOMAIN powers |-> [Address |-> Addr(i), VotingPower |-> powers[i]]]

\* The validator sets a VoteSet is built over: validators of power 1, the
\* first of them of any power.
ValSets == {MakeValSet([i \in 0..(NumVals - 1) |-> IF i = 0 THEN p ELSE 1]) : p \in PowerChoices}

\* valSet.Size()
Size(valSet) == Cardinality(DOMAIN valSet)

RECURSIVE SumPower(_, _)
SumPower(valSet, idxs) == IF idxs = {} THEN 0 ELSE LET i == CHOOSE x \in idxs : TRUE IN valSet[i].VotingPower + SumPower(valSet, idxs \ {i})

\* valSet.TotalVotingPower()
TotalVotingPower(valSet) == SumPower(valSet, DOMAIN valSet)

\* valSet.GetByIndex(i): the validator, nil when out of range
GetByIndex(valSet, i) == IF i \in DOMAIN valSet THEN valSet[i] ELSE NilValidator

\* valSet.GetByAddress(address): (index, validator), (0, nil) when unknown
GetByAddress(valSet, address) == IF \E i \in DOMAIN valSet : valSet[i].Address = address THEN LET i == CHOOSE j \in DOMAIN valSet : valSet[j].Address = address IN [index |-> i, val |-> valSet[i]] ELSE [index |-> 0, val |-> NilValidator]

(***************************************************************************)
(* Votes.  A block hash is a byte string; a signature is modelled by the   *)
(* address of the validator whose key produced it over this vote's sign    *)
(* bytes, so it verifies exactly against that validator's public key.      *)
(***************************************************************************)
PartSetHeader(total, hash) == [Total |-> total, Hash |-> hash]

BlockNil == [BlockHash |-> <<>>, BlockParts |-> PartSetHeader(0, <<>>)]
BlockA == [BlockHash |-> <<170>>, BlockParts |-> PartSetHeader(1, <<187>>)]
BlockA2 == [BlockHash |-> <<170>>, BlockParts |-> PartSetHeader(2, <<187>>)]

\* the block identifiers votes are cast for: the nil block, a block, and the
\* same block hash under another parts header
Blocks == {BlockNil, BlockA, BlockA2}

MakeVote(h, r, t, b, signer) == [Height |-> h, Round |-> r, Type |-> t, BlockHash |-> b.BlockHash, BlockParts |-> b.BlockParts, Signature |-> signer]

\* val.PubKey.VerifyBytes(account.SignBytes(chain_id, vote), vote.Signature)
VerifyBytes(val, vote) == vote.Signature = val.Address

\* binary.BinaryBytes(parts): the total, then the length-prefixed hash
BinaryBytes(parts) == <<parts.Total, Len(parts.Hash)>> \o parts.Hash

\* string(hash) + string(binary.BinaryBytes(parts))
BlockIdKey(hash, parts) == hash \o BinaryBytes(parts)

\* blockKey of addVote
BlockKey(vote) == BlockIdKey(vote.BlockHash, vote.BlockParts)

(***************************************************************************)
(* Errors and results.                                                     *)
(***************************************************************************)
ErrNil == [kind |-> "nil"]
ErrVoteUnexpectedStep == [kind |-> "ErrVoteUnexpectedStep"]
ErrVoteInvalidAccount == [kind |-> "ErrVoteInvalidAccount"]
ErrVoteInvalidSignature == [kind |-> "ErrVoteInvalidSignature"]
ErrVoteConflictingSignature(a, b) == [kind |-> "ErrVoteConflictingSignature", VoteA |-> a, VoteB |-> b]

\* (added bool, index int, err error)
Ret(added, index, err) == [added |-> added, index |-> index, err |-> err]
\* the call has not returned yet
NoRet == [pending |-> TRUE]

(***************************************************************************)
(* VoteSet.                                                                *)
(***************************************************************************)
NewVoteSet(height, round, type, valSet) == [height |-> height, round |-> round, type_ |-> type, valSet |-> valSet, votes |-> [i \in DOMAIN valSet |-> NilVote], votesBitArray |-> [i \in DOMAIN valSet |-> FALSE], votesByBlock |-> <<>>, totalVotes |-> 0, maj23Hash |-> <<>>, maj23Parts |-> PartSetHeader(0, <<>>), maj23Exists |-> FALSE]

\* voteSet.votesByBlock[blockKey]: a missing key reads as 0
VotesByBlock(vs, key) == IF key \in DOMAIN vs.votesByBlock THEN vs.votesByBlock[key] ELSE 0

\* a latch test that does not ask the tally to exceed two thirds
JustReachedTwoThirdsNoFloor(total, power, totalVotingPower) == (total - power) <= (totalVotingPower * 2) \div 3

\* a latch test that takes exactly two thirds for a majority
JustReachedTwoThirdsInclusive(total, power, totalVotingPower) == total >= (totalVotingPower * 2) \div 3 /\ (total - power) <= (totalVotingPower * 2) \div 3

\* a latch test that misses a tally that stood at exactly two thirds
JustReachedTwoThirdsFromBelow(total, power, totalVotingPower) == total > (totalVotingPower * 2) \div 3 /\ (total - power) < (totalVotingPower * 2) \div 3

\* totalBlockHashVotes > TotalVotingPower*2/3 && totalBlockHashVotes - power <= TotalVotingPower*2/3
JustReachedTwoThirds(total, power, totalVotingPower) == total > (totalVotingPower * 2) \div 3 /\ (total - power) <= (totalVotingPower * 2) \div 3

\* addVote's "Make sure the step matches."
StepMatches(vs, vote) == vote.Height = vs.height /\ vote.Round = vs.round /\ vote.Type = vs.type_

\* a slot check that names the two votes of a conflict the wrong way round
SlotCheckSwapped(vs, valIndex, vote) ==
    IF vs.votes[valIndex].BlockHash = vote.BlockHash
    THEN [vs |-> vs, ret |-> Ret(FALSE, valIndex, ErrNil)]
    ELSE [vs |-> vs, ret |-> Ret(FALSE, valIndex, ErrVoteConflictingSignature(vote, vs.votes[valIndex]))]

\* a slot check that lets a conflicting vote take the slot
SlotCheckOverwrites(vs, valIndex, vote) ==
    IF vs.votes[valIndex].BlockHash = vote.BlockHash
    THEN [vs |-> vs, ret |-> Ret(FALSE, valIndex, ErrNil)]
    ELSE [vs |-> [vs EXCEPT !.votes = [@ EXCEPT ![valIndex] = vote]],
          ret |-> Ret(FALSE, valIndex, ErrVoteConflictingSignature(vs.votes[valIndex], vote))]

\* a slot check that reports a duplicate as added
SlotCheckDupAdded(vs, valIndex, vote) ==
    IF vs.votes[valIndex].BlockHash = vote.BlockHash
    THEN [vs |-> vs, ret |-> Ret(TRUE, valIndex, ErrNil)]
    ELSE [vs |-> vs, ret |-> Ret(FALSE, valIndex, ErrVoteConflictingSignature(vs.votes[valIndex], vote))]

\* addVote's "If vote already exists, return false.", on an occupied slot:
\* the VoteSet it leaves and what it returns
SlotCheck(vs, valIndex, vote) ==
    IF vs.votes[valIndex].BlockHash = vote.BlockHash
    THEN [vs |-> vs, ret |-> Ret(FALSE, valIndex, ErrNil)]
    ELSE [vs |-> vs, ret |-> Ret(FALSE, valIndex, ErrVoteConflictingSignature(vs.votes[valIndex], vote))]

\* checks that look at the slot before they verify the signature
addVoteCheckSlotFirst(vs, val, valIndex, vote) ==
    IF ~StepMatches(vs, vote)
    THEN [vs |-> vs, ret |-> Ret(FALSE, 0, ErrVoteUnexpectedStep)]
    ELSE IF vs.votes[valIndex] # NilVote
    THEN SlotCheck(vs, valIndex, vote)
    ELSE IF ~VerifyBytes(val, vote)
    THEN [vs |-> vs, ret |-> Ret(FALSE, 0, ErrVoteInvalidSignature)]
    ELSE [vs |-> vs, ret |-> NoRet]

\* addVote, up to "Add vote.": the VoteSet it leaves and the result of its
\* early return, NoRet when the vote is to be added
addVoteCheck(vs, val, valIndex, vote) ==
    IF ~StepMatches(vs, vote)
    THEN [vs |-> vs, ret |-> Ret(FALSE, 0, ErrVoteUnexpectedStep)]
    ELSE IF ~VerifyBytes(val, vote)
    THEN [vs |-> vs, ret |-> Ret(FALSE, 0, ErrVoteInvalidSignature)]
    ELSE IF vs.votes[valIndex] # NilVote
    THEN SlotCheck(vs, valIndex, vote)
    ELSE [vs |-> vs, ret |-> NoRet]

\* a store that tallies the vote under its block but not in totalVotes
addVoteStoreNoTotal(vs, val, valIndex, vote) ==
    LET blockKey == BlockKey(vote)
        totalBlockHashVotes == VotesByBlock(vs, blockKey) + val.VotingPower
        latch == JustReachedTwoThirds(totalBlockHashVotes, val.VotingPower, TotalVotingPower(vs.valSet))
    IN [vs EXCEPT !.votes = [@ EXCEPT ![valIndex] = vote],
                  !.votesBitArray = [@ EXCEPT ![valIndex] = TRUE],
                  !.votesByBlock = [k \in DOMAIN @ \cup {blockKey} |-> IF k = blockKey THEN totalBlockHashVotes ELSE @[k]],
                  !.maj23Hash = IF latch THEN vote.BlockHash ELSE @,
                  !.maj23Parts = IF latch THEN vote.BlockParts ELSE @,
                  !.maj23Exists = IF latch THEN TRUE ELSE @]

\* addVote, from "Add vote." on: the VoteSet with the vote stored and tallied,
\* and maj23 set when this vote nudged its block over two thirds.
addVoteStore(vs, val, valIndex, vote) ==
    LET blockKey == BlockKey(vote)
        totalBlockHashVotes == VotesByBlock(vs, blockKey) + val.VotingPower
        latch == JustReachedTwoThirds(totalBlockHashVotes, val.VotingPower, TotalVotingPower(vs.valSet))
    IN [vs EXCEPT !.votes = [@ EXCEPT ![valIndex] = vote],
                  !.votesBitArray = [@ EXCEPT ![valIndex] = TRUE],
                  !.votesByBlock = [k \in DOMAIN @ \cup {blockKey} |-> IF k = blockKey THEN totalBlockHashVotes ELSE @[k]],
                  !.totalVotes = @ + val.VotingPower,
                  !.maj23Hash = IF latch THEN vote.BlockHash ELSE @,
                  !.maj23Parts = IF latch THEN vote.BlockParts ELSE @,
                  !.maj23Exists = IF latch THEN TRUE ELSE @]

\* addVote as a whole: the VoteSet after the call and what the call returns.
addVote(vs, val, valIndex, vote) ==
    LET early == addVoteCheck(vs, val, valIndex, vote)
    IN IF early.ret # NoRet
       THEN early
       ELSE [vs |-> addVoteStore(early.vs, val, valIndex, vote), ret |-> Ret(TRUE, valIndex, ErrNil)]

\* voteSet.HasTwoThirdsMajority()
HasTwoThirdsMajority(vs) == vs.maj23Exists

\* voteSet.TwoThirdsMajority()
TwoThirdsMajority(vs) ==
    IF vs.maj23Exists
    THEN [hash |-> vs.maj23Hash, parts |-> vs.maj23Parts, ok |-> TRUE]
    ELSE [hash |-> <<>>, parts |-> PartSetHeader(0, <<>>), ok |-> FALSE]

\* the votes a caller may hand to a VoteSet: at the VoteSet's step, for any
\* block and signed by any validator; or off it in one of height, round and
\* type, signed by the first validator
VoteInputs(vs) ==
    LET signers == {vs.valSet[i].Address : i \in DOMAIN vs.valSet}
        other == IF vs.type_ = VoteTypePrevote THEN VoteTypePrecommit ELSE VoteTypePrevote
    IN {MakeVote(vs.height, vs.round, vs.type_, b, s) : b \in Blocks, s \in signers}
       \cup {MakeVote(vs.height + 1, vs.round, vs.type_, BlockA, Addr(0)),
             MakeVote(vs.height, vs.round + 1, vs.type_, BlockA, Addr(0)),
             MakeVote(vs.height, vs.round, other, BlockA, Addr(0))}

(***************************************************************************)
(* State.  voteSet, mtx, threads and addedCount belong to VoteSetSpec:     *)
(*   voteSet     the VoteSet the threads share;                            *)
(*   mtx         voteSet.mtx: the thread holding it, or NoThread;          *)
(*   threads     each thread's call in progress;                           *)
(*   addedCount  per validator index, the calls that returned added=true.  *)
(***************************************************************************)
VARIABLES voteSet, mtx, threads, addedCount

(***************************************************************************)
(* round, roundVoteSets, peerCatchupRounds, last and calls belong to Spec: *)
(*   round, roundVoteSets, peerCatchupRounds  the HeightVoteSet's fields;  *)
(*   last    the last call made on the HeightVoteSet, with what it         *)
(*           returned or that it panicked;                                 *)
(*   calls   the number of calls made so far.                              *)
(***************************************************************************)
VARIABLES round, roundVoteSets, peerCatchupRounds, last, calls

(***************************************************************************)
(* validation, fresh and fed belong to ValidationSpec:                     *)
(*   validation  what MakeValidation() on voteSet returned, or that it     *)
(*               panicked;                                                 *)
(*   fresh       a second VoteSet constructed as voteSet was;              *)
(*   fed         the validator indexes whose vote of the Validation has    *)
(*               been added to fresh.                                      *)
(***************************************************************************)
VARIABLES validation, fresh, fed

(***************************************************************************)
(* hvsMtx, vsMtx, procs and aborted belong to LockSpec:                    *)
(*   hvsMtx   hvs.mtx: the thread holding it, or NoThread;                 *)
(*   vsMtx    the mutexes of the VoteSets that are locked: VoteSet (round, *)
(*            type) -> the thread holding its mtx;                         *)
(*   procs    each thread's call in progress and the VoteSet reference it  *)
(*            got from Prevotes / Precommits;                              *)
(*   aborted  a call has panicked: the process is gone.                    *)
(***************************************************************************)
VARIABLES hvsMtx, vsMtx, procs, aborted

\* a thread that is in no call
IdleThread == [pc |-> "idle", valIndex |-> 0, vote |-> NilVote, ret |-> NoRet]

vsVars == <<voteSet, mtx, threads, addedCount>>
hvsVars == <<round, roundVoteSets, peerCatchupRounds, last, calls>>
mvVars == <<validation, fresh, fed>>
lkVars == <<hvsMtx, vsMtx, procs, aborted>>
vars == <<voteSet, mtx, threads, addedCount, round, roundVoteSets, peerCatchupRounds, last, calls, validation, fresh, fed, hvsMtx, vsMtx, procs, aborted>>

\* MakeValidation() has not been called
NoValidation == [pending |-> TRUE]

\* a nil *VoteSet
NilVoteSet == <<>>

\* a thread that is in no call and holds the VoteSet reference ref
IdleProc(ref) == [pc |-> "idle", op |-> "none", arg |-> <<>>, target |-> NilVoteSet, ref |-> ref]

\* no mutex is held and no thread is in a call
LkInit ==
    /\ hvsMtx = NoThread
    /\ vsMtx = <<>>
    /\ procs = [t \in Threads |-> IdleProc(NilVoteSet)]
    /\ aborted = FALSE

\* no MakeValidation() call yet, and the second VoteSet as constructed
MvInit ==
    /\ validation = NoValidation
    /\ fresh = NewVoteSet(voteSet.height, voteSet.round, voteSet.type_, voteSet.valSet)
    /\ fed = {}

(***************************************************************************)
(* HeightVoteSet.                                                          *)
(***************************************************************************)
\* the validators of the HeightVoteSet: the first alone holds more than two
\* thirds of the voting power, the second does not
HvsValSet == MakeValSet([i \in 0..1 |-> IF i = 0 THEN 3 ELSE 1])

\* the peers votes come from; "" is the node itself
PeerKeys == {"", "P1"}

\* a vote type that is neither prevote nor precommit
VoteTypeUnknown == 3

\* VoteSet.AddByAddress as one step: the VoteSet after the call and what the
\* call returns
VoteSetAddByAddress(vs, address, vote) ==
    LET r == GetByAddress(vs.valSet, address)
    IN IF r.val = NilValidator
       THEN [vs |-> vs, ret |-> Ret(FALSE, 0, ErrVoteInvalidAccount)]
       ELSE addVote(vs, r.val, r.index, vote)

\* addRound past its panic: the map with the round's two VoteSets added
addRound(rvs, r) ==
    [k \in DOMAIN rvs \cup {r} |->
        IF k = r
        THEN [Prevotes |-> NewVoteSet(Height, r, VoteTypePrevote, HvsValSet),
              Precommits |-> NewVoteSet(Height, r, VoteTypePrecommit, HvsValSet)]
        ELSE rvs[k]]

\* the round addRound is called with in SetRound's loop, at loop index r
\* towards target
SetRoundAdds(r, target) == target

\* SetRound's loop from index r on: the map it leaves, and whether addRound
\* panicked on a round that exists
RECURSIVE SetRoundLoop(_, _, _)
SetRoundLoop(rvs, r, target) ==
    IF r > target
    THEN [rvs |-> rvs, panic |-> FALSE]
    ELSE IF r \in DOMAIN rvs
    THEN SetRoundLoop(rvs, r + 1, target)
    ELSE IF SetRoundAdds(r, target) \in DOMAIN rvs
    THEN [rvs |-> rvs, panic |-> TRUE]
    ELSE SetRoundLoop(addRound(rvs, SetRoundAdds(r, target)), r + 1, target)

\* SetRound's check of its argument: whether it panics
SetRoundPanics(cur, r) == cur # 0 /\ r < cur + 1

\* hvs.getVoteSet(round, type_) on a round that exists
getVoteSet(rvs, r, type) == IF type = VoteTypePrevote THEN rvs[r].Prevotes ELSE rvs[r].Precommits

\* a scan that takes the highest round with a prevote majority, a catch-up
\* round above r included
POLRoundFromAnyRound(rvs, r) ==
    LET S == {k \in DOMAIN rvs : k >= 0 /\ rvs[k].Prevotes.maj23Exists}
    IN IF S = {} THEN -1 ELSE CHOOSE k \in S : \A j \in S : j <= k

\* hvs.POLRound(): the scan from r down to 0
RECURSIVE POLRoundFrom(_, _)
POLRoundFrom(rvs, r) ==
    IF r < 0
    THEN -1
    ELSE IF r \in DOMAIN rvs /\ HasTwoThirdsMajority(rvs[r].Prevotes)
    THEN r
    ELSE POLRoundFrom(rvs, r - 1)

POLRound == POLRoundFrom(roundVoteSets, round)

NoCall == [op |-> "NewHeightVoteSet", panic |-> FALSE]

\* NewHeightVoteSet(Height, HvsValSet)
HvsInit ==
    /\ round = 0
    /\ roundVoteSets = addRound(<<>>, 0)
    /\ peerCatchupRounds = <<>>
    /\ last = NoCall
    /\ calls = 0

\* the process is running: no call has panicked, and the model allows a call
Running == ~last.panic /\ calls < MaxCalls

\* a test that admits a catch-up round from every peer
NoCatchupRoundAlways(pcr, peerKey) == TRUE

\* `_, ok := hvs.peerCatchupRounds[peerKey]; !ok`: the peer has no catch-up
\* round yet
NoCatchupRound(pcr, peerKey) == peerKey \notin DOMAIN pcr

\* HeightVoteSet.SetRound(r)
SetRound(r) ==
    /\ Running
    /\ calls' = calls + 1
    /\ IF SetRoundPanics(round, r)
       THEN /\ last' = [op |-> "SetRound", round |-> r, panic |-> TRUE]
            /\ UNCHANGED <<round, roundVoteSets>>
       ELSE LET loop == SetRoundLoop(roundVoteSets, round + 1, r)
            IN /\ roundVoteSets' = loop.rvs
               /\ round' = IF loop.panic THEN round ELSE r
               /\ last' = [op |-> "SetRound", round |-> r, panic |-> loop.panic]
    /\ UNCHANGED peerCatchupRounds
    /\ UNCHANGED vsVars
    /\ UNCHANGED mvVars
    /\ UNCHANGED lkVars

\* HeightVoteSet.AddByAddress(address, vote, peerKey)
HvsAddByAddress(address, vote, peerKey) ==
    /\ Running
    /\ calls' = calls + 1
    /\ IF vote.Round \notin DOMAIN roundVoteSets
       THEN /\ IF NoCatchupRound(peerCatchupRounds, peerKey)
               THEN /\ roundVoteSets' = addRound(roundVoteSets, vote.Round)
                    /\ peerCatchupRounds' = [k \in DOMAIN peerCatchupRounds \cup {peerKey} |->
                                               IF k = peerKey THEN vote.Round ELSE peerCatchupRounds[k]]
               ELSE UNCHANGED <<roundVoteSets, peerCatchupRounds>>
            /\ last' = [op |-> "AddByAddress", address |-> address, vote |-> vote, peerKey |-> peerKey,
                        ret |-> Ret(FALSE, 0, ErrNil), panic |-> FALSE]
       ELSE IF vote.Type \notin {VoteTypePrevote, VoteTypePrecommit}
       THEN /\ last' = [op |-> "AddByAddress", address |-> address, vote |-> vote, peerKey |-> peerKey,
                        ret |-> NoRet, panic |-> TRUE]
            /\ UNCHANGED <<roundVoteSets, peerCatchupRounds>>
       ELSE LET res == VoteSetAddByAddress(getVoteSet(roundVoteSets, vote.Round, vote.Type), address, vote)
            IN /\ roundVoteSets' = [roundVoteSets EXCEPT ![vote.Round] =
                                       IF vote.Type = VoteTypePrevote
                                       THEN [@ EXCEPT !.Prevotes = res.vs]
                                       ELSE [@ EXCEPT !.Precommits = res.vs]]
               /\ last' = [op |-> "AddByAddress", address |-> address, vote |-> vote, peerKey |-> peerKey,
                           ret |-> res.ret, panic |-> FALSE]
               /\ UNCHANGED peerCatchupRounds
    /\ UNCHANGED round
    /\ UNCHANGED vsVars
    /\ UNCHANGED mvVars
    /\ UNCHANGED lkVars

\* HeightVoteSet.POLRound()
HvsPOLRound ==
    /\ Running
    /\ calls' = calls + 1
    /\ last' = [op |-> "POLRound", ret |-> POLRound, panic |-> FALSE]
    /\ UNCHANGED <<round, roundVoteSets, peerCatchupRounds>>
    /\ UNCHANGED vsVars
    /\ UNCHANGED mvVars
    /\ UNCHANGED lkVars

\* the votes a caller may hand to the HeightVoteSet, each with the address
\* it is handed in under: a vote of either type for any round and block,
\* signed by the validator at the address, or signed by another validator,
\* or under an address that is no validator's; and a vote of an unknown type
HvsVoteInputs ==
    {[address |-> a[1], vote |-> MakeVote(Height, r, t, b, a[2])] :
        r \in 0..MaxRound, t \in {VoteTypePrevote, VoteTypePrecommit}, b \in {BlockNil, BlockA},
        a \in {<<Addr(0), Addr(0)>>, <<Addr(1), Addr(1)>>, <<Addr(1), Addr(0)>>, <<UnknownAddress, Addr(0)>>}}
    \cup {[address |-> Addr(0), vote |-> MakeVote(Height, r, VoteTypeUnknown, BlockA, Addr(0))] : r \in 0..MaxRound}

Next ==
    \/ \E i \in HvsVoteInputs : \E p \in PeerKeys : HvsAddByAddress(i.address, i.vote, p)
    \/ \E r \in (-1)..MaxRound : SetRound(r)
    \/ HvsPOLRound

Init ==
    /\ HvsInit
    /\ voteSet = NewVoteSet(Height, 0, VoteTypePrecommit, MakeValSet([i \in 0..(NumVals - 1) |-> 1]))
    /\ mtx = NoThread
    /\ threads = [t \in Threads |-> IdleThread]
    /\ addedCount = [i \in 0..(NumVals - 1) |-> 0]
    /\ MvInit
    /\ LkInit

Spec == Init /\ [][Next]_vars

(***************************************************************************)
(* VoteSet under concurrent callers.                                       *)
(***************************************************************************)

VoteSetInit ==
    /\ voteSet \in {NewVoteSet(Height, 0, VoteTypePrecommit, v) : v \in ValSets}
    /\ mtx = NoThread
    /\ threads = [t \in Threads |-> IdleThread]
    /\ addedCount = [i \in 0..(NumVals - 1) |-> 0]
    /\ HvsInit
    /\ MvInit
    /\ LkInit

\* a Lock() that never waits
MutexFreeAlways(m) == TRUE

\* voteSet.mtx.Lock() returns once no thread holds the mutex
MutexFree(m) == m = NoThread

\* The call of thread t once the mutex is taken and the signer resolved to
\* (valIndex, val): addVote's checks have run, and the thread has returned
\* early or is about to store the vote.
Resolved(t, valIndex, val, vote) ==
    LET early == IF val = NilValidator
                 THEN [vs |-> voteSet, ret |-> Ret(FALSE, 0, ErrVoteInvalidAccount)]
                 ELSE addVoteCheck(voteSet, val, valIndex, vote)
    IN /\ voteSet' = early.vs
       /\ threads' = [threads EXCEPT ![t] = [pc |-> IF early.ret = NoRet THEN "store" ELSE "unlock",
                                             valIndex |-> valIndex, vote |-> vote, ret |-> early.ret]]

\* VoteSet.AddByIndex, from the call to the end of addVote's checks
AddByIndex(t, valIndex, vote) ==
    /\ threads[t].pc = "idle"
    /\ MutexFree(mtx)
    /\ mtx' = t
    /\ Resolved(t, IF valIndex \in DOMAIN voteSet.valSet THEN valIndex ELSE 0, GetByIndex(voteSet.valSet, valIndex), vote)
    /\ UNCHANGED addedCount
    /\ UNCHANGED hvsVars
    /\ UNCHANGED lkVars
    /\ UNCHANGED mvVars

\* VoteSet.AddByAddress, from the call to the end of addVote's checks
AddByAddress(t, address, vote) ==
    /\ threads[t].pc = "idle"
    /\ MutexFree(mtx)
    /\ mtx' = t
    /\ LET r == GetByAddress(voteSet.valSet, address)
       IN Resolved(t, r.index, r.val, vote)
    /\ UNCHANGED addedCount
    /\ UNCHANGED hvsVars
    /\ UNCHANGED lkVars
    /\ UNCHANGED mvVars

\* addVote, from "Add vote." to its return
StoreVote(t) ==
    /\ threads[t].pc = "store"
    /\ voteSet' = addVoteStore(voteSet, voteSet.valSet[threads[t].valIndex], threads[t].valIndex, threads[t].vote)
    /\ threads' = [threads EXCEPT ![t].pc = "unlock", ![t].ret = Ret(TRUE, threads[t].valIndex, ErrNil)]
    /\ UNCHANGED <<mtx, addedCount>>
    /\ UNCHANGED hvsVars
    /\ UNCHANGED lkVars
    /\ UNCHANGED mvVars

\* the deferred voteSet.mtx.Unlock() and the return to the caller
Unlock(t) ==
    /\ threads[t].pc = "unlock"
    /\ mtx' = NoThread
    /\ threads' = [threads EXCEPT ![t] = IdleThread]
    /\ addedCount' = IF threads[t].ret.added
                     THEN [addedCount EXCEPT ![threads[t].ret.index] = @ + 1]
                     ELSE addedCount
    /\ UNCHANGED voteSet
    /\ UNCHANGED hvsVars
    /\ UNCHANGED lkVars
    /\ UNCHANGED mvVars

VoteSetNext ==
    \/ \E t \in Threads : \E i \in 0..NumVals : \E v \in VoteInputs(voteSet) : AddByIndex(t, i, v)
    \/ \E t \in Threads : \E a \in {UnknownAddress} \cup {Addr(i) : i \in 0..(NumVals - 1)} : \E v \in VoteInputs(voteSet) : AddByAddress(t, a, v)
    \/ \E t \in Threads : StoreVote(t)
    \/ \E t \in Threads : Unlock(t)

VoteSetSpec == VoteSetInit /\ [][VoteSetNext]_vars

(***************************************************************************)
(* MakeValidation.                                                         *)
(***************************************************************************)
\* types.PartSetHeader.Equals
PartsEquals(a, b) == a.Total = b.Total /\ a.Hash = b.Hash

\* VoteSet.AddByIndex as one step: the VoteSet after the call and what the
\* call returns
VoteSetAddByIndex(vs, valIndex, vote) ==
    LET val == GetByIndex(vs.valSet, valIndex)
    IN IF val = NilValidator
       THEN [vs |-> vs, ret |-> Ret(FALSE, 0, ErrVoteInvalidAccount)]
       ELSE addVote(vs, val, valIndex, vote)

\* a MakeValidation that does not look at the VoteSet's type
MakeValidationPanicsAnyType(vs) == Len(vs.maj23Hash) = 0

\* MakeValidation's two panics: the type is not precommit, or maj23Hash is
\* empty
MakeValidationPanics(vs) == vs.type_ # VoteTypePrecommit \/ Len(vs.maj23Hash) = 0

\* a MakeValidation that compares block hashes only
MakeValidationPrecommitsAnyParts(vs) ==
    [i \in DOMAIN vs.valSet |->
        IF vs.votes[i] = NilVote THEN NilVote
        ELSE IF vs.votes[i].BlockHash # vs.maj23Hash THEN NilVote
        ELSE vs.votes[i]]

\* a MakeValidation whose iteration stops at the first vote it copies
MakeValidationPrecommitsFirst(vs) ==
    LET M == {i \in DOMAIN vs.valSet : /\ vs.votes[i] # NilVote
                                       /\ vs.votes[i].BlockHash = vs.maj23Hash
                                       /\ PartsEquals(vs.votes[i].BlockParts, vs.maj23Parts)}
    IN [i \in DOMAIN vs.valSet |-> IF i \in M /\ (\A j \in M : i <= j) THEN vs.votes[i] ELSE NilVote]

\* MakeValidation's precommits: slot by slot over the validators, the stored
\* vote when its block hash and parts header are those of maj23
MakeValidationPrecommits(vs) ==
    [i \in DOMAIN vs.valSet |->
        IF vs.votes[i] = NilVote THEN NilVote
        ELSE IF vs.votes[i].BlockHash # vs.maj23Hash THEN NilVote
        ELSE IF ~PartsEquals(vs.votes[i].BlockParts, vs.maj23Parts) THEN NilVote
        ELSE vs.votes[i]]

\* what voteSet.MakeValidation() comes to
MakeValidationResult(vs) ==
    IF MakeValidationPanics(vs)
    THEN [panic |-> TRUE]
    ELSE [panic |-> FALSE, Precommits |-> MakeValidationPrecommits(vs)]

\* the VoteSets MakeValidation is called on: of either type
ValidationInit ==
    /\ voteSet \in {NewVoteSet(Height, 0, t, v) : t \in {VoteTypePrevote, VoteTypePrecommit}, v \in ValSets}
    /\ mtx = NoThread
    /\ threads = [t \in Threads |-> IdleThread]
    /\ addedCount = [i \in 0..(NumVals - 1) |-> 0]
    /\ HvsInit
    /\ MvInit
    /\ LkInit

\* voteSet.AddByAddress(address, vote), a whole call
CallAddByAddress(address, vote) ==
    /\ validation = NoValidation
    /\ voteSet' = VoteSetAddByAddress(voteSet, address, vote).vs
    /\ UNCHANGED <<mtx, threads, addedCount>>
    /\ UNCHANGED hvsVars
    /\ UNCHANGED lkVars
    /\ UNCHANGED mvVars

\* voteSet.MakeValidation()
MakeValidation ==
    /\ validation = NoValidation
    /\ validation' = MakeValidationResult(voteSet)
    /\ UNCHANGED <<fresh, fed>>
    /\ UNCHANGED vsVars
    /\ UNCHANGED hvsVars
    /\ UNCHANGED lkVars

\* fresh.AddByIndex(i, validation.Precommits[i]) for a slot that is filled
FeedPrecommit(i) ==
    /\ validation # NoValidation
    /\ ~validation.panic
    /\ i \notin fed
    /\ validation.Precommits[i] # NilVote
    /\ fresh' = VoteSetAddByIndex(fresh, i, validation.Precommits[i]).vs
    /\ fed' = fed \cup {i}
    /\ UNCHANGED validation
    /\ UNCHANGED vsVars
    /\ UNCHANGED hvsVars
    /\ UNCHANGED lkVars

ValidationNext ==
    \/ \E a \in {UnknownAddress} \cup {Addr(i) : i \in 0..(NumVals - 1)} : \E v \in VoteInputs(voteSet) : CallAddByAddress(a, v)
    \/ MakeValidation
    \/ \E i \in 0..(NumVals - 1) : FeedPrecommit(i)

ValidationSpec == ValidationInit /\ [][ValidationNext]_vars

(***************************************************************************)
(* The HeightVoteSet and the VoteSets it hands out, under concurrent       *)
(* callers.  A call is a sequence of steps: the call itself, then each     *)
(* Lock() with the code that runs up to the next mutex operation, and each *)
(* deferred Unlock().                                                      *)
(***************************************************************************)
\* the VoteSet of round r and the given type, as a reference
VsKey(r, type) == <<r, type>>

\* the VoteSet a reference points to
Deref(rvs, k) == getVoteSet(rvs, k[1], k[2])

\* a return that leaves the mutex locked
MutexUnlockSkipped(m) == m

\* the deferred hvs.mtx.Unlock(): the mutex after it
MutexUnlock(m) == NoThread

\* POLRound's loop from index r on, up to the next VoteSet whose mutex it
\* takes: that VoteSet's round, -1 when the loop ends before (a round without
\* VoteSets is a nil VoteSet, which HasTwoThirdsMajority answers unlocked)
RECURSIVE POLRoundNext(_, _)
POLRoundNext(rvs, r) ==
    IF r < 0
    THEN -1
    ELSE IF r \in DOMAIN rvs
    THEN r
    ELSE POLRoundNext(rvs, r - 1)

\* The body of a HeightVoteSet method of call p, from hvs.mtx.Lock() to the
\* next mutex operation: whether it panics, the fields it leaves, where the
\* call goes on, and the VoteSet it locks next or hands out.
HvsBody(p) ==
    LET same == [panic |-> FALSE, round |-> round, rvs |-> roundVoteSets, pcr |-> peerCatchupRounds,
                 pc |-> "hvsUnlock", target |-> NilVoteSet, ref |-> p.ref]
    IN IF p.op = "SetRound"
       THEN IF SetRoundPanics(round, p.arg)
            THEN [same EXCEPT !.panic = TRUE]
            ELSE LET loop == SetRoundLoop(roundVoteSets, round + 1, p.arg)
                 IN IF loop.panic
                    THEN [same EXCEPT !.panic = TRUE]
                    ELSE [same EXCEPT !.round = p.arg, !.rvs = loop.rvs]
       ELSE IF p.op = "AddByAddress"
       THEN IF p.arg.vote.Round \notin DOMAIN roundVoteSets
            THEN IF NoCatchupRound(peerCatchupRounds, p.arg.peerKey)
                 THEN [same EXCEPT !.rvs = addRound(roundVoteSets, p.arg.vote.Round),
                                   !.pcr = [k \in DOMAIN peerCatchupRounds \cup {p.arg.peerKey} |->
                                              IF k = p.arg.peerKey THEN p.arg.vote.Round ELSE peerCatchupRounds[k]]]
                 ELSE same
            ELSE IF p.arg.vote.Type \notin {VoteTypePrevote, VoteTypePrecommit}
            THEN [same EXCEPT !.panic = TRUE]
            ELSE [same EXCEPT !.pc = "vsLock", !.target = VsKey(p.arg.vote.Round, p.arg.vote.Type)]
       ELSE IF p.op = "POLRound"
       THEN LET r == POLRoundNext(roundVoteSets, round)
            IN IF r < 0 THEN same ELSE [same EXCEPT !.pc = "vsLock", !.target = VsKey(r, VoteTypePrevote)]
       ELSE IF p.op = "Prevotes"
       THEN [same EXCEPT !.ref = IF p.arg \in DOMAIN roundVoteSets THEN VsKey(p.arg, VoteTypePrevote) ELSE NilVoteSet]
       ELSE [same EXCEPT !.ref = IF p.arg \in DOMAIN roundVoteSets THEN VsKey(p.arg, VoteTypePrecommit) ELSE NilVoteSet]

\* where call p goes on once the VoteSet method it is in has returned
AfterVoteSet(p) ==
    IF p.op = "AddByAddress"
    THEN [pc |-> "hvsUnlock", target |-> NilVoteSet]
    ELSE IF p.op = "POLRound"
    THEN IF HasTwoThirdsMajority(Deref(roundVoteSets, p.target))
         THEN [pc |-> "hvsUnlock", target |-> NilVoteSet]
         ELSE LET r == POLRoundNext(roundVoteSets, p.target[1] - 1)
              IN IF r < 0
                 THEN [pc |-> "hvsUnlock", target |-> NilVoteSet]
                 ELSE [pc |-> "vsLock", target |-> VsKey(r, VoteTypePrevote)]
    ELSE [pc |-> "idle", target |-> NilVoteSet]

\* the process is running and the model allows another call
MayCall(t) == ~aborted /\ calls < MaxCalls /\ procs[t].pc = "idle"

\* thread t calls a method of the HeightVoteSet
CallHvs(t, op, arg) ==
    /\ MayCall(t)
    /\ calls' = calls + 1
    /\ procs' = [procs EXCEPT ![t] = [pc |-> "hvsLock", op |-> op, arg |-> arg, target |-> NilVoteSet, ref |-> procs[t].ref]]
    /\ UNCHANGED <<hvsMtx, vsMtx, aborted>>
    /\ UNCHANGED <<round, roundVoteSets, peerCatchupRounds, last>>
    /\ UNCHANGED vsVars
    /\ UNCHANGED mvVars

\* thread t calls a method of the VoteSet it got from Prevotes / Precommits
CallVs(t, op, arg) ==
    /\ MayCall(t)
    /\ procs[t].ref # NilVoteSet
    /\ calls' = calls + 1
    /\ procs' = [procs EXCEPT ![t] = [pc |-> "vsLock", op |-> op, arg |-> arg, target |-> procs[t].ref, ref |-> procs[t].ref]]
    /\ UNCHANGED <<hvsMtx, vsMtx, aborted>>
    /\ UNCHANGED <<round, roundVoteSets, peerCatchupRounds, last>>
    /\ UNCHANGED vsVars
    /\ UNCHANGED mvVars

\* hvs.mtx.Lock() of thread t's call returns, and the method runs up to its
\* next mutex operation
HvsLock(t) ==
    /\ ~aborted
    /\ procs[t].pc = "hvsLock"
    /\ MutexFree(hvsMtx)
    /\ LET b == HvsBody(procs[t])
       IN IF b.panic
          THEN /\ aborted' = TRUE
               /\ UNCHANGED <<hvsMtx, procs, round, roundVoteSets, peerCatchupRounds>>
          ELSE /\ hvsMtx' = t
               /\ round' = b.round
               /\ roundVoteSets' = b.rvs
               /\ peerCatchupRounds' = b.pcr
               /\ procs' = [procs EXCEPT ![t].pc = b.pc, ![t].target = b.target, ![t].ref = b.ref]
               /\ UNCHANGED aborted
    /\ UNCHANGED <<vsMtx, last, calls>>
    /\ UNCHANGED vsVars
    /\ UNCHANGED mvVars

\* voteSet.mtx.Lock() of the VoteSet thread t's call is at returns, and the
\* VoteSet's method runs
VsLock(t) ==
    /\ ~aborted
    /\ procs[t].pc = "vsLock"
    /\ procs[t].target \notin DOMAIN vsMtx
    /\ vsMtx' = [k \in DOMAIN vsMtx \cup {procs[t].target} |-> IF k = procs[t].target THEN t ELSE vsMtx[k]]
    /\ procs' = [procs EXCEPT ![t].pc = "vsUnlock"]
    /\ IF procs[t].op \in {"AddByAddress", "VoteSet.AddByAddress"}
       THEN LET k == procs[t].target
                res == VoteSetAddByAddress(Deref(roundVoteSets, k), procs[t].arg.address, procs[t].arg.vote)
            IN roundVoteSets' = [roundVoteSets EXCEPT ![k[1]] =
                                    IF k[2] = VoteTypePrevote
                                    THEN [@ EXCEPT !.Prevotes = res.vs]
                                    ELSE [@ EXCEPT !.Precommits = res.vs]]
       ELSE UNCHANGED roundVoteSets
    /\ UNCHANGED <<hvsMtx, aborted, round, peerCatchupRounds, last, calls>>
    /\ UNCHANGED vsVars
    /\ UNCHANGED mvVars

\* the deferred voteSet.mtx.Unlock(): the VoteSet's method returns
VsUnlock(t) ==
    /\ ~aborted
    /\ procs[t].pc = "vsUnlock"
    /\ vsMtx' = [k \in DOMAIN vsMtx \ {procs[t].target} |-> vsMtx[k]]
    /\ LET a == AfterVoteSet(procs[t])
       IN procs' = [procs EXCEPT ![t] = IF a.pc = "idle"
                                         THEN IdleProc(procs[t].ref)
                                         ELSE [@ EXCEPT !.pc = a.pc, !.target = a.target]]
    /\ UNCHANGED <<hvsMtx, aborted>>
    /\ UNCHANGED hvsVars
    /\ UNCHANGED vsVars
    /\ UNCHANGED mvVars

\* the deferred hvs.mtx.Unlock(): the HeightVoteSet's method returns
HvsUnlock(t) ==
    /\ ~aborted
    /\ procs[t].pc = "hvsUnlock"
    /\ hvsMtx' = MutexUnlock(hvsMtx)
    /\ procs' = [procs EXCEPT ![t] = IdleProc(procs[t].ref)]
    /\ UNCHANGED <<vsMtx, aborted>>
    /\ UNCHANGED hvsVars
    /\ UNCHANGED vsVars
    /\ UNCHANGED mvVars

\* the votes the threads hand in: validator 0's vote for a block, of either
\* type and any round, from a peer; and a vote of an unknown type
LockVoteInputs ==
    {[address |-> Addr(0), vote |-> MakeVote(Height, r, t, BlockA, Addr(0)), peerKey |-> "P1"] :
        r \in 0..MaxRound, t \in {VoteTypePrevote, VoteTypePrecommit}}
    \cup {[address |-> Addr(0), vote |-> MakeVote(Height, 0, VoteTypeUnknown, BlockA, Addr(0)), peerKey |-> "P1"]}

\* a step of a call in progress of thread t
Proceed(t) == HvsLock(t) \/ VsLock(t) \/ VsUnlock(t) \/ HvsUnlock(t)

LockNext ==
    \/ \E t \in Threads : \E i \in LockVoteInputs : CallHvs(t, "AddByAddress", i)
    \/ \E t \in Threads : \E r \in 0..MaxRound : CallHvs(t, "SetRound", r)
    \/ \E t \in Threads : CallHvs(t, "POLRound", <<>>)
    \/ \E t \in Threads : \E r \in 0..MaxRound : CallHvs(t, "Prevotes", r)
    \/ \E t \in Threads : \E r \in 0..MaxRound : CallHvs(t, "Precommits", r)
    \/ \E t \in Threads : \E i \in LockVoteInputs : CallVs(t, "VoteSet.AddByAddress", i)
    \/ \E t \in Threads : CallVs(t, "VoteSet.HasTwoThirdsMajority", <<>>)
    \/ \E t \in Threads : HvsLock(t)
    \/ \E t \in Threads : VsLock(t)
    \/ \E t \in Threads : VsUnlock(t)
    \/ \E t \in Threads : HvsUnlock(t)

LockSpec == Init /\ [][LockNext]_vars

\* The Go scheduler runs every goroutine that can run, and a sync.Mutex that
\* stays free is taken by a goroutine waiting in Lock(): a step of a call in
\* progress that stays possible is eventually taken.
LockFairSpec == LockSpec /\ \A t \in Threads : WF_vars(Proceed(t))

(***************************************************************************)
(* Properties of the VoteSet, checked under VoteSetSpec.                   *)
(***************************************************************************)
\* thread t enters a call: it takes the mutex and runs addVote's checks
CallStep(t) == threads[t].pc = "idle" /\ threads'[t].pc # "idle"
\* thread t stores its vote
StoreStep(t) == threads[t].pc = "store" /\ threads'[t].pc = "unlock"
\* thread t returns from its call
ReturnStep(t) == threads[t].pc = "unlock" /\ threads'[t].pc = "idle"
\* the call thread t enters found its signer in the validator set
SignerKnown(t) == threads'[t].ret # Ret(FALSE, 0, ErrVoteInvalidAccount)
\* total_voting_power * 2 / 3
Threshold(vs) == (TotalVotingPower(vs.valSet) * 2) \div 3
\* the tally of the latched block identifier
Maj23Tally(vs) == VotesByBlock(vs, BlockIdKey(vs.maj23Hash, vs.maj23Parts))

\* C1: under any interleaving of the threads' AddByIndex / AddByAddress calls,
\* at most one call per validator index returns added=true, and a filled
\* slot votes[i] is never overwritten or cleared by a later step.
C1_AtMostOneAdded ==
    [][/\ \A i \in DOMAIN addedCount' : addedCount'[i] <= 1
       /\ \A i \in DOMAIN voteSet.votes : voteSet.votes[i] # NilVote => voteSet'.votes[i] = voteSet.votes[i]]_vars

\* C1 witness: a call for an index returned added=true, and a later call for
\* the same index, with another block, is returning added=false.
C1_Witness ==
    \E t \in Threads : \E i \in DOMAIN voteSet.votes :
        /\ addedCount[i] = 1
        /\ threads[t].pc = "unlock"
        /\ threads[t].valIndex = i
        /\ threads[t].ret.added = FALSE
        /\ threads[t].ret.err.kind = "ErrVoteConflictingSignature"
        /\ voteSet.votes[i] # threads[t].vote

\* C2: once HasTwoThirdsMajority() is true it stays true, and
\* TwoThirdsMajority() keeps returning the same (hash, parts) pair, whatever
\* votes are accepted later.
C2_LatchMonotonic ==
    [][HasTwoThirdsMajority(voteSet) =>
          (HasTwoThirdsMajority(voteSet') /\ TwoThirdsMajority(voteSet') = TwoThirdsMajority(voteSet))]_vars

\* C2 witness: with maj23 latched, a vote for another block identifier has
\* just been accepted.
C2_Witness ==
    \E t \in Threads :
        /\ HasTwoThirdsMajority(voteSet)
        /\ threads[t].pc = "unlock"
        /\ threads[t].ret.added
        /\ BlockKey(threads[t].vote) # BlockIdKey(voteSet.maj23Hash, voteSet.maj23Parts)

\* C3: whenever maj23 is set to (h, p), the tally of (h, p) is strictly
\* greater than total_voting_power*2/3 (integer division); so a tally equal
\* to that threshold has not latched.
C3_ThresholdCorrect == voteSet.maj23Exists => Maj23Tally(voteSet) > Threshold(voteSet)

\* C3 witness: maj23 is latched over validators of power 1 with a tally one
\* above the threshold: the vote before took the tally to exactly the
\* threshold and did not latch.
C3_Witness ==
    /\ voteSet.maj23Exists
    /\ \A i \in DOMAIN voteSet.valSet : voteSet.valSet[i].VotingPower = 1
    /\ Maj23Tally(voteSet) = Threshold(voteSet) + 1
    /\ Threshold(voteSet) > 0

\* C4: a correctly signed vote at the VoteSet's step, for a validator whose
\* slot holds a vote with another block hash, returns added=false and
\* ConflictingSignature{VoteA: the stored vote, VoteB: the new vote}, and the
\* stored vote stays in the slot.
C4_ConflictingSignature ==
    [][\A t \in Threads :
          /\ (/\ CallStep(t)
              /\ SignerKnown(t)
              /\ voteSet.votes[threads'[t].valIndex] # NilVote
              /\ StepMatches(voteSet, threads'[t].vote)
              /\ VerifyBytes(voteSet.valSet[threads'[t].valIndex], threads'[t].vote)
              /\ voteSet.votes[threads'[t].valIndex].BlockHash # threads'[t].vote.BlockHash)
             => /\ threads'[t].ret = Ret(FALSE, threads'[t].valIndex,
                                         ErrVoteConflictingSignature(voteSet.votes[threads'[t].valIndex], threads'[t].vote))
                /\ voteSet'.votes = voteSet.votes
          /\ (ReturnStep(t) /\ threads[t].ret.err.kind = "ErrVoteConflictingSignature")
             => /\ voteSet'.votes[threads[t].ret.index] = threads[t].ret.err.VoteA
                /\ voteSet'.votes[threads[t].ret.index] # threads[t].ret.err.VoteB]_vars

\* C4 witness: a call is returning ConflictingSignature for a slot that holds
\* the prior vote.
C4_Witness ==
    \E t \in Threads :
        /\ threads[t].pc = "unlock"
        /\ threads[t].ret.err.kind = "ErrVoteConflictingSignature"
        /\ threads[t].ret.err.VoteA = voteSet.votes[threads[t].valIndex]
        /\ threads[t].ret.err.VoteB = threads[t].vote

\* C5: a call that returns an error (UnexpectedStep, InvalidAccount,
\* InvalidSignature, ConflictingSignature) leaves the whole VoteSet as it
\* was: neither its checks nor its return change any field.
C5_ErrorLeavesState ==
    [][\A t \in Threads :
          /\ (CallStep(t) /\ threads'[t].ret # NoRet /\ threads'[t].ret.err # ErrNil) => voteSet' = voteSet
          /\ (ReturnStep(t) /\ threads[t].ret.err # ErrNil) => voteSet' = voteSet]_vars

\* C5 witness: a call on a VoteSet that holds votes is returning an error.
C5_Witness ==
    \E t \in Threads :
        /\ threads[t].pc = "unlock"
        /\ threads[t].ret.err # ErrNil
        /\ voteSet.totalVotes > 0
        /\ voteSet.maj23Exists

\* C6: a valid vote for an empty slot is stored and returns (true, index,
\* nil), with the block's tally and the total raised by the validator's power
\* once; the same vote submitted again returns (false, index, nil) and
\* changes nothing.
C6_DuplicateIdempotent ==
    [][\A t \in Threads :
          /\ (/\ CallStep(t)
              /\ SignerKnown(t)
              /\ StepMatches(voteSet, threads'[t].vote)
              /\ VerifyBytes(voteSet.valSet[threads'[t].valIndex], threads'[t].vote)
              /\ voteSet.votes[threads'[t].valIndex] = NilVote)
             => threads'[t].pc = "store"
          /\ StoreStep(t)
             => /\ threads'[t].ret = Ret(TRUE, threads[t].valIndex, ErrNil)
                /\ voteSet'.votes[threads[t].valIndex] = threads[t].vote
                /\ voteSet'.totalVotes = voteSet.totalVotes + voteSet.valSet[threads[t].valIndex].VotingPower
                /\ VotesByBlock(voteSet', BlockKey(threads[t].vote))
                     = VotesByBlock(voteSet, BlockKey(threads[t].vote)) + voteSet.valSet[threads[t].valIndex].VotingPower
          /\ (CallStep(t) /\ SignerKnown(t) /\ voteSet.votes[threads'[t].valIndex] = threads'[t].vote)
             => /\ threads'[t].ret = Ret(FALSE, threads'[t].valIndex, ErrNil)
                /\ voteSet' = voteSet]_vars

\* C6 witness: the vote a call submits is the one its validator's slot holds
\* from a call that returned added=true, and the call is returning
\* (false, index, nil).
C6_Witness ==
    \E t \in Threads :
        /\ threads[t].pc = "unlock"
        /\ voteSet.votes[threads[t].valIndex] = threads[t].vote
        /\ addedCount[threads[t].valIndex] = 1
        /\ threads[t].ret = Ret(FALSE, threads[t].valIndex, ErrNil)

(***************************************************************************)
(* Properties of the HeightVoteSet, checked under Spec.                    *)
(***************************************************************************)
\* this step is a call of HeightVoteSet.AddByAddress
HvsAddStep == calls' = calls + 1 /\ last'.op = "AddByAddress"
\* this step is a call of HeightVoteSet.SetRound
SetRoundStep == calls' = calls + 1 /\ last'.op = "SetRound"
\* the vote is one a fresh VoteSet of its round and type accepts from address
ValidFor(address, vote) ==
    /\ vote.Type \in {VoteTypePrevote, VoteTypePrecommit}
    /\ vote.Height = Height
    /\ GetByAddress(HvsValSet, address).val # NilValidator
    /\ VerifyBytes(GetByAddress(HvsValSet, address).val, vote)

\* C7: AddByAddress for a vote whose round has no RoundVoteSet, from a peer
\* with no catch-up entry, allocates the round, records it for the peer, and
\* goes on to hand the vote to the new VoteSet's AddByAddress, whose result it
\* returns: a valid vote is stored and returns added=true.
C7_CatchupVoteAccepted ==
    [][(/\ HvsAddStep
        /\ last'.vote.Type \in {VoteTypePrevote, VoteTypePrecommit}
        /\ last'.vote.Round \notin DOMAIN roundVoteSets
        /\ last'.peerKey \notin DOMAIN peerCatchupRounds)
       => /\ ~last'.panic
          /\ last'.vote.Round \in DOMAIN roundVoteSets'
          /\ last'.peerKey \in DOMAIN peerCatchupRounds'
          /\ peerCatchupRounds'[last'.peerKey] = last'.vote.Round
          /\ last'.ret = VoteSetAddByAddress(NewVoteSet(Height, last'.vote.Round, last'.vote.Type, HvsValSet),
                                             last'.address, last'.vote).ret
          /\ ValidFor(last'.address, last'.vote)
             => /\ last'.ret.added
                /\ getVoteSet(roundVoteSets', last'.vote.Round, last'.vote.Type).votes[last'.ret.index] = last'.vote]_vars

\* C8: after any calls that returned, every round above round that is present
\* is the recorded catch-up round of some peer; a call allocates a round only
\* for a peer without an entry; and a vote for an absent round from a peer
\* with an entry allocates nothing and returns (false, 0, nil).
C8_CatchupThrottle ==
    [][~last'.panic
       => /\ \A r \in DOMAIN roundVoteSets' :
               r > round' => \E p \in DOMAIN peerCatchupRounds' : peerCatchupRounds'[p] = r
          /\ (HvsAddStep /\ DOMAIN roundVoteSets' # DOMAIN roundVoteSets)
             => last'.peerKey \notin DOMAIN peerCatchupRounds
          /\ (HvsAddStep /\ last'.vote.Round \notin DOMAIN roundVoteSets /\ last'.peerKey \in DOMAIN peerCatchupRounds)
             => /\ roundVoteSets' = roundVoteSets
                /\ peerCatchupRounds' = peerCatchupRounds
                /\ last'.ret = Ret(FALSE, 0, ErrNil)]_vars

\* the VoteSet is one constructed for (Height, r, type, HvsValSet)
ConstructedFor(vs, r, type) == vs.height = Height /\ vs.round = r /\ vs.type_ = type /\ vs.valSet = HvsValSet

\* C9: in every state the calls leave, every round r in [0, round] has an
\* entry in roundVoteSets with a prevote and a precommit VoteSet constructed
\* for (height, r, kind, validators).
C9_RoundsPresent ==
    ~last.panic
    => \A r \in 0..round :
          /\ r \in DOMAIN roundVoteSets
          /\ ConstructedFor(roundVoteSets[r].Prevotes, r, VoteTypePrevote)
          /\ ConstructedFor(roundVoteSets[r].Precommits, r, VoteTypePrecommit)

\* C10: SetRound(r) with r above the current round does not abort, whatever
\* the gap and whatever rounds catch-up has allocated; it creates every
\* missing round in [round+1, r] and leaves every RoundVoteSet that existed
\* as it was.
C10_SetRoundFills ==
    [][(SetRoundStep /\ last'.round > round)
       => /\ ~last'.panic
          /\ round' = last'.round
          /\ \A k \in (round + 1)..last'.round : k \in DOMAIN roundVoteSets'
          /\ \A k \in DOMAIN roundVoteSets : k \in DOMAIN roundVoteSets' /\ roundVoteSets'[k] = roundVoteSets[k]]_vars

\* C11: round starts at 0, and no SetRound call that returns, whatever
\* integer it is called with and whatever the current round (round 0
\* included), leaves round lower than it was before the call.
C11_RoundMonotonic ==
    /\ (calls = 0 => round = 0)
    /\ [][(SetRoundStep /\ ~last'.panic) => round' >= round]_vars

\* this step is a call of HeightVoteSet.POLRound
POLRoundStep == calls' = calls + 1 /\ last'.op = "POLRound"
\* the rounds in [0, round] whose prevote VoteSet has latched a majority
PrevoteMajorityRounds == {r \in 0..round : r \in DOMAIN roundVoteSets /\ roundVoteSets[r].Prevotes.maj23Exists}

ValidationMade == validation # NoValidation
\* MakeValidation() has returned a Validation
ValidationReturned == ValidationMade /\ ~validation.panic
\* the slots of the Validation that hold a vote
FilledSlots == {i \in DOMAIN validation.Precommits : validation.Precommits[i] # NilVote}
\* the stored vote of validator i is for the latched block identifier
MatchesMaj23(vs, i) ==
    /\ vs.votes[i] # NilVote
    /\ vs.votes[i].BlockHash = vs.maj23Hash
    /\ vs.votes[i].BlockParts = vs.maj23Parts

\* C13 as stated: MakeValidation() aborts if and only if the VoteSet's kind is
\* not precommit or no maj23 has been latched; on a precommit VoteSet with
\* maj23 latched it returns a Validation, whatever the latched identifier,
\* the nil block included.
C13_AbortsIffMisuse ==
    ValidationMade => (validation.panic <=> (voteSet.type_ # VoteTypePrecommit \/ ~voteSet.maj23Exists))

\* C13 as amended: MakeValidation() aborts if and only if the VoteSet's kind
\* is not precommit, or no maj23 has been latched, or the latched identifier
\* is the nil block (empty block hash); on a precommit VoteSet that latched
\* an identifier with a block hash it returns a Validation.
C13_AbortsIffMisuseOrNil ==
    ValidationMade
    => (validation.panic <=> (\/ voteSet.type_ # VoteTypePrecommit
                              \/ ~voteSet.maj23Exists
                              \/ (voteSet.maj23Exists /\ voteSet.maj23Hash = <<>>)))

\* C13 witness: MakeValidation() has aborted on a precommit VoteSet that
\* latched the nil block.
C13_Witness ==
    /\ ValidationMade
    /\ validation.panic
    /\ voteSet.type_ = VoteTypePrecommit
    /\ voteSet.maj23Exists
    /\ voteSet.maj23Hash = <<>>
    /\ Maj23Tally(voteSet) > Threshold(voteSet)

\* C14: when MakeValidation() returns, slot i of the Validation holds
\* votes[i] exactly when votes[i] is present and matches maj23 in block hash
\* and parts header, every other slot is empty, and the voting power of the
\* filled slots sums to more than total_voting_power*2/3.
C14_ValidationSlots ==
    ValidationReturned
    => /\ DOMAIN validation.Precommits = DOMAIN voteSet.valSet
       /\ \A i \in DOMAIN voteSet.valSet :
             /\ MatchesMaj23(voteSet, i) => validation.Precommits[i] = voteSet.votes[i]
             /\ ~MatchesMaj23(voteSet, i) => validation.Precommits[i] = NilVote
       /\ SumPower(voteSet.valSet, FilledSlots) > Threshold(voteSet)

\* C14 witness: MakeValidation() has returned a Validation with filled slots
\* and with an empty slot for a validator whose vote has the latched block
\* hash under another parts header.
C14_Witness ==
    /\ ValidationReturned
    /\ FilledSlots # {}
    /\ \E i \in DOMAIN voteSet.valSet :
          /\ voteSet.votes[i] # NilVote
          /\ voteSet.votes[i].BlockHash = voteSet.maj23Hash
          /\ voteSet.votes[i].BlockParts # voteSet.maj23Parts
          /\ validation.Precommits[i] = NilVote

(***************************************************************************)
(* Further properties of the VoteSet, checked under VoteSetSpec.           *)
(***************************************************************************)
\* the sum of the tallies votesByBlock holds under the keys ks
RECURSIVE SumTally(_, _)
SumTally(vs, ks) == IF ks = {} THEN 0 ELSE LET k == CHOOSE x \in ks : TRUE IN vs.votesByBlock[k] + SumTally(vs, ks \ {k})
\* the validator indexes whose slot holds a vote
Voted(vs) == {i \in DOMAIN vs.votes : vs.votes[i] # NilVote}

\* C15: in every reachable state of the VoteSet the per-block tallies sum to
\* totalVotes, totalVotes is the summed voting power of the validators whose
\* slot is filled, and totalVotes does not exceed the total voting power.
C15_Accounting ==
    /\ SumTally(voteSet, DOMAIN voteSet.votesByBlock) = voteSet.totalVotes
    /\ voteSet.totalVotes = SumPower(voteSet.valSet, Voted(voteSet))
    /\ voteSet.totalVotes <= TotalVotingPower(voteSet.valSet)

\* C15 witness: every validator has voted, over more than one block
\* identifier, the nil block among them.
C15_Witness ==
    /\ Voted(voteSet) = DOMAIN voteSet.votes
    /\ Cardinality(DOMAIN voteSet.votesByBlock) >= 2
    /\ BlockKey(MakeVote(Height, 0, VoteTypePrecommit, BlockNil, Addr(0))) \in DOMAIN voteSet.votesByBlock
    /\ voteSet.totalVotes = TotalVotingPower(voteSet.valSet)

(***************************************************************************)
(* The round trip through a Validation, checked under ValidationSpec.      *)
(***************************************************************************)
\* every vote of the Validation has been added to the fresh VoteSet
AllFed == ValidationReturned /\ fed = FilledSlots

\* C16 as stated: for any precommit VoteSet that has latched maj23,
\* MakeValidation() yields precommits, and once every non-empty vote of them
\* has been added, in any order, to a fresh VoteSet of the same height,
\* round, kind and validators, the fresh VoteSet has latched the same maj23.
C16_RoundTrip ==
    (ValidationMade /\ voteSet.type_ = VoteTypePrecommit /\ voteSet.maj23Exists)
    => /\ ValidationReturned
       /\ AllFed => TwoThirdsMajority(fresh) = TwoThirdsMajority(voteSet)

\* C16 as amended: for any precommit VoteSet that has latched a maj23 with a
\* non-empty block hash, MakeValidation() yields precommits, and once every
\* non-empty vote of them has been added, in any order, to a fresh VoteSet of
\* the same height, round, kind and validators, each of them accepted, the
\* fresh VoteSet has latched the same maj23.
C16_RoundTripOfBlock ==
    (ValidationMade /\ voteSet.type_ = VoteTypePrecommit /\ voteSet.maj23Exists /\ voteSet.maj23Hash # <<>>)
    => /\ ValidationReturned
       /\ Voted(fresh) = fed
       /\ \A i \in fed : fresh.votes[i] = voteSet.votes[i]
       /\ AllFed => /\ HasTwoThirdsMajority(fresh)
                    /\ TwoThirdsMajority(fresh) = TwoThirdsMajority(voteSet)

\* C16 witness: the Validation of a VoteSet that holds votes for other
\* blocks too had more than one vote, all of them have been added to the
\* fresh VoteSet, and the fresh VoteSet has latched.
C16_Witness ==
    /\ AllFed
    /\ Cardinality(fed) >= 2
    /\ Voted(voteSet) # FilledSlots
    /\ HasTwoThirdsMajority(fresh)

(***************************************************************************)
(* Properties of the locking, checked under LockFairSpec.                  *)
(***************************************************************************)
\* thread t holds the mutex of some VoteSet
HoldsVoteSet(t) == \E k \in DOMAIN vsMtx : vsMtx[k] = t
\* thread t waits in Lock() for a mutex another thread holds
Waits(t) ==
    \/ procs[t].pc = "hvsLock" /\ hvsMtx # NoThread
    \/ procs[t].pc = "vsLock" /\ procs[t].target \in DOMAIN vsMtx

\* C17: whatever calls the threads make on the HeightVoteSet (AddByAddress,
\* SetRound, POLRound, Prevotes, Precommits) and on the VoteSets it returned,
\* no thread asks for hvs.mtx while it holds a VoteSet's mutex, and under
\* fair scheduling every call that is in progress returns, unless a call has
\* aborted the process.
C17_EveryCallReturns ==
    /\ [](\A t \in Threads : HoldsVoteSet(t) => procs[t].pc # "hvsLock")
    /\ \A t \in Threads : (procs[t].pc # "idle") ~> (procs[t].pc = "idle" \/ aborted)

\* C17 witness: a thread that holds hvs.mtx waits for the mutex of a VoteSet
\* that another thread, in a direct call on that VoteSet, holds, while a third
\* call may still be waiting for hvs.mtx.
C17_Witness ==
    \E t \in Threads : \E u \in Threads \ {t} :
        /\ hvsMtx = t
        /\ procs[t].pc = "vsLock"
        /\ procs[t].target \in DOMAIN vsMtx
        /\ vsMtx[procs[t].target] = u
        /\ procs[u].op = "VoteSet.AddByAddress"
        /\ Waits(t)

(***************************************************************************)
(* Evidence and latching of the VoteSet, checked under VoteSetSpec.        *)
(***************************************************************************)
\* the vote is one the VoteSet accepts from the validator at index i: it is
\* at the VoteSet's step and carries that validator's signature
AcceptableFrom(vs, i, vote) == StepMatches(vs, vote) /\ VerifyBytes(vs.valSet[i], vote)

\* C18: every ConflictingSignature a call returns carries two votes at the
\* VoteSet's height, round and type, both signed by the validator of the
\* slot, with different block hashes; a vote off the VoteSet's step or with
\* an invalid signature, aimed at an occupied slot, returns UnexpectedStep or
\* InvalidSignature and never ConflictingSignature.
C18_EvidenceSound ==
    [][\A t \in Threads :
          (CallStep(t) /\ SignerKnown(t))
          => LET i == threads'[t].valIndex
                 vote == threads'[t].vote
                 ret == threads'[t].ret
             IN /\ (ret # NoRet /\ ret.err.kind = "ErrVoteConflictingSignature")
                   => /\ ret.err.VoteA = voteSet.votes[i]
                      /\ ret.err.VoteB = vote
                      /\ AcceptableFrom(voteSet, i, ret.err.VoteA)
                      /\ AcceptableFrom(voteSet, i, ret.err.VoteB)
                      /\ ret.err.VoteA.BlockHash # ret.err.VoteB.BlockHash
                /\ (voteSet.votes[i] # NilVote /\ ~StepMatches(voteSet, vote))
                   => ret = Ret(FALSE, 0, ErrVoteUnexpectedStep)
                /\ (voteSet.votes[i] # NilVote /\ StepMatches(voteSet, vote) /\ ~VerifyBytes(voteSet.valSet[i], vote))
                   => ret = Ret(FALSE, 0, ErrVoteInvalidSignature)]_vars

\* C18 witness: a vote for another block hash than the one its slot holds,
\* signed by another validator, is returning InvalidSignature.
C18_Witness ==
    \E t \in Threads :
        /\ threads[t].pc = "unlock"
        /\ threads[t].ret = Ret(FALSE, 0, ErrVoteInvalidSignature)
        /\ voteSet.votes[threads[t].valIndex] # NilVote
        /\ voteSet.votes[threads[t].valIndex].BlockHash # threads[t].vote.BlockHash
        /\ StepMatches(voteSet, threads[t].vote)
        /\ ~VerifyBytes(voteSet.valSet[threads[t].valIndex], threads[t].vote)

\* the block identifiers whose tally is above two thirds of the voting power
OverTwoThirds(vs) ==
    {[BlockHash |-> vs.votes[i].BlockHash, BlockParts |-> vs.votes[i].BlockParts] :
        i \in {j \in Voted(vs) : VotesByBlock(vs, BlockKey(vs.votes[j])) > Threshold(vs)}}

\* C19: with every voting power positive, in every reachable state of the
\* VoteSet a block identifier whose tally is strictly above
\* total_voting_power*2/3 is the latched maj23; so at most one identifier's
\* tally is above the threshold.
C19_NoMissedLatch ==
    (\A i \in DOMAIN voteSet.valSet : voteSet.valSet[i].VotingPower > 0)
    => /\ \A b \in OverTwoThirds(voteSet) :
             /\ voteSet.maj23Exists
             /\ voteSet.maj23Hash = b.BlockHash
             /\ voteSet.maj23Parts = b.BlockParts
       /\ Cardinality(OverTwoThirds(voteSet)) <= 1

\* C19 witness: an identifier's tally stands at the whole voting power, two
\* or more above the threshold, and it is the latched maj23.
C19_Witness ==
    /\ OverTwoThirds(voteSet) # {}
    /\ voteSet.maj23Exists
    /\ Maj23Tally(voteSet) = TotalVotingPower(voteSet.valSet)
    /\ Maj23Tally(voteSet) >= Threshold(voteSet) + 2

(***************************************************************************)
(* The catch-up allowance of a peer, checked under Spec.                   *)
(***************************************************************************)
\* C20: an entry of peerCatchupRounds is never removed or overwritten; the
\* first vote of a peer for an absent round creates the peer's entry, valid
\* or not; and once a peer has an entry, a vote of that peer for an absent
\* round allocates no round and reaches no VoteSet, also after SetRound has
\* taken round to or past the peer's recorded round.
C20_CatchupPermanent ==
    [][/\ \A p \in DOMAIN peerCatchupRounds :
            p \in DOMAIN peerCatchupRounds' /\ peerCatchupRounds'[p] = peerCatchupRounds[p]
       /\ (HvsAddStep /\ last'.vote.Round \notin DOMAIN roundVoteSets /\ last'.peerKey \notin DOMAIN peerCatchupRounds)
          => /\ last'.peerKey \in DOMAIN peerCatchupRounds'
             /\ peerCatchupRounds'[last'.peerKey] = last'.vote.Round
       /\ (HvsAddStep /\ last'.vote.Round \notin DOMAIN roundVoteSets /\ last'.peerKey \in DOMAIN peerCatchupRounds)
          => /\ ~last'.panic
             /\ last'.ret.added = FALSE
             /\ roundVoteSets' = roundVoteSets]_vars

\* C20 witness: a peer whose recorded catch-up round SetRound has reached has
\* sent a vote for an absent round, and the call has returned without
\* allocating the round.
C20_Witness ==
    /\ last.op = "AddByAddress"
    /\ last.peerKey \in DOMAIN peerCatchupRounds
    /\ peerCatchupRounds[last.peerKey] <= round
    /\ peerCatchupRounds[last.peerKey] # last.vote.Round
    /\ last.vote.Round \notin DOMAIN roundVoteSets
    /\ last.ret = Ret(FALSE, 0, ErrNil)

====
